---- MODULE Spec2Model ----
(***************************************************************************)
(* Model of the sentiment-analysis core: SentimentAnalyzer                 *)
(* (src/sentiment_analyzer.py) owning a TF-IDF vectorizer, a classifier    *)
(* and a metadata record, and the artifact directory written by save_model *)
(* and read by load_model.                                                 *)
(*                                                                         *)
(* A text is the set of vocabulary features (n-grams) its normalized form  *)
(* contributes; a feature row is the subset of the learned vocabulary that *)
(* occurs in the text (out-of-vocabulary features are dropped); a feature  *)
(* matrix is a sequence of rows together with its column count.            *)
(***************************************************************************)
EXTENDS Integers, Sequences, FiniteSets, TLC

VARIABLES
    an,     \* the SentimentAnalyzer instance the caller holds
    dir,    \* the artifact directory: model.joblib, vectorizer.joblib, metadata.json
    clock,  \* what datetime.now() returns: time advances with every call
    last,   \* the last call made by the caller: operation, outcome, returned value
    saved,  \* the instance as it was at the last save_model that completed on dir
    procs,  \* the callers that share dir concurrently: instance held, call in progress
    tproc,  \* the FinancialTextProcessor instance a caller holds
    tcall   \* the last call made on the text processor: operation, arguments, outcome

vars == <<an, dir, clock, last, saved, procs, tproc, tcall>>

----------------------------------------------------------------------------
(* Bounds of the model                                                     *)

MaxTerm == 2        \* vocabulary features are 1..MaxTerm
MaxLen == 5         \* longest corpus passed to a call
MaxLabel == 1       \* labels are 0..MaxLabel
MaxSeed == 1        \* random_state values are 0..MaxSeed
MaxScore == 1       \* cross-validation scores are 0..MaxScore
MaxCalls == 3       \* calls made on the instance and the directory

(* Program constants                                                       *)

CvFolds == 5            \* GridSearchCV(cv=5)
TestNum == 1            \* test_size = 0.2 = TestNum / TestDen
TestDen == 5
DefaultEstimators == 100
DefaultMaxDepth == 30
GridEstimators == 50    \* first values of the default grid's lists
GridMaxDepth == 10
GridMinSplit == 2

Terms == 1..MaxTerm
\* the texts of the model: those made of the first k features, k = 0..MaxTerm
TextPool == {1..k : k \in 0..MaxTerm}
Labels == 0..MaxLabel
Seeds == 0..MaxSeed

Range(s) == {s[i] : i \in DOMAIN s}

EmptyDict == [k \in {} |-> {}]

\* dict.update(u): keys of u are added or overwritten, the others kept
DictUpdate(m, u) ==
    [k \in (DOMAIN m) \cup (DOMAIN u) |-> IF k \in DOMAIN u THEN u[k] ELSE m[k]]

\* m[key] = value on a dict
DictSet(m, key, value) ==
    [k \in (DOMAIN m) \cup {key} |-> IF k = key THEN value ELSE m[k]]

----------------------------------------------------------------------------
(* Inputs: a corpus of n texts whose first text is a and whose others are  *)
(* b, with label x for the first text and the top label for the others.    *)

\* the corpus lengths of the model: too short to split, the shortest that
\* splits, and the longest
Lengths == {1, 2, MaxLen}

Corpus(n, a, b) == [i \in 1..n |-> IF i = 1 THEN a ELSE b]

LabelSeq(n, x) == [i \in 1..n |-> IF i = 1 THEN x ELSE MaxLabel]

----------------------------------------------------------------------------
(* train_test_split(texts, labels, test_size, random_state)                *)

NTest(n) == (n * TestNum + TestDen - 1) \div TestDen

NTrain(n) == n - NTest(n)

\* the seeded shuffle: a permutation of 1..n fixed by (seed, n)
Permutation(seed, n) == [i \in 1..n |-> ((i - 1 + seed) % n) + 1]

TestIdx(seed, n) == [i \in 1..NTest(n) |-> Permutation(seed, n)[i]]

TrainIdx(seed, n) == [i \in 1..NTrain(n) |-> Permutation(seed, n)[NTest(n) + i]]

Select(s, idx) == [i \in DOMAIN idx |-> s[idx[i]]]

\* the split raises when the train partition would be empty
SplitOk(n) == NTrain(n) >= 1 /\ NTest(n) >= 1

----------------------------------------------------------------------------
(* TfidfVectorizer                                                         *)

UnfitVectorizer == [fit |-> FALSE, vocab |-> {}, fitOn |-> {}]

Vocabulary(texts) == UNION Range(texts)

\* fit_transform learns the vocabulary of the texts it is given
FitVectorizer(texts) ==
    [fit |-> TRUE, vocab |-> Vocabulary(texts), fitOn |-> Range(texts)]

\* transform: one row per text, one column per vocabulary feature
Transform(vec, texts) ==
    [rows |-> [i \in DOMAIN texts |-> texts[i] \cap vec.vocab],
     ncols |-> Cardinality(vec.vocab)]

NoMatrix == [rows |-> <<>>, ncols |-> 0]

\* mutant of MustFit: preprocess_data without the vectorizer_fitted test
MustFitAlways(a) == TRUE

\* which branch preprocess_data takes for an instance: hasattr(self, 'vectorizer_fitted')
MustFit(a) == ~a.vectorizer_fitted

\* preprocess_data(texts): [ok, an, X]; ok = FALSE when the vectorizer raises
\* (empty vocabulary on fit_transform, NotFittedError on transform)
PreprocessData(a, texts) ==
    IF MustFit(a)
    THEN IF Vocabulary(texts) = {}
         THEN [ok |-> FALSE, an |-> a, X |-> NoMatrix]
         ELSE LET v == FitVectorizer(texts)
              IN  [ok |-> TRUE,
                   an |-> [a EXCEPT !.vectorizer = v, !.vectorizer_fitted = TRUE],
                   X  |-> Transform(v, texts)]
    ELSE IF ~a.vectorizer.fit
         THEN [ok |-> FALSE, an |-> a, X |-> NoMatrix]
         ELSE [ok |-> TRUE, an |-> a, X |-> Transform(a.vectorizer, texts)]

----------------------------------------------------------------------------
(* The classifier (RandomForestClassifier, random_state=42): after fit it  *)
(* is a deterministic function of its training data. It answers a row seen *)
(* in training with the majority label of that row and any other row with  *)
(* the majority label of the training set (ties: the smallest label).      *)

DefaultParams ==
    [n_estimators |-> DefaultEstimators, max_depth |-> DefaultMaxDepth]

UnfitClassifier(params) ==
    [fit |-> FALSE, n_features |-> 0, classes |-> {}, table |-> EmptyDict,
     prior |-> 0, params |-> params]

CountIn(idx, y, l) == Cardinality({i \in idx : y[i] = l})

Majority(idx, y) ==
    CHOOSE l \in {y[i] : i \in idx} :
        \A m \in {y[i] : i \in idx} :
            \/ CountIn(idx, y, l) > CountIn(idx, y, m)
            \/ (CountIn(idx, y, l) = CountIn(idx, y, m) /\ l <= m)

FitClassifier(params, X, y) ==
    [fit |-> TRUE,
     n_features |-> X.ncols,
     classes |-> Range(y),
     table |-> [r \in Range(X.rows) |->
                   Majority({i \in DOMAIN y : X.rows[i] = r}, y)],
     prior |-> Majority(DOMAIN y, y),
     params |-> params]

\* mutant of PredictOk: a classifier that answers without validating anything
PredictOkUnchecked(m, X) == TRUE

\* model.predict raises when the classifier is not fitted or the column count differs
PredictOk(m, X) == m.fit /\ X.ncols = m.n_features

\* mutant of PredictRow: a classifier that answers label 0 whatever it was taught
PredictRowZero(m, r) == 0

\* what the fitted classifier answers for one feature row
PredictRow(m, r) == IF r \in DOMAIN m.table THEN m.table[r] ELSE m.prior

\* mutant of ClassifierPredict: the answers come back in reverse row order
ClassifierPredictReversed(m, X) ==
    [i \in DOMAIN X.rows |-> PredictRow(m, X.rows[Len(X.rows) + 1 - i])]

\* model.predict: one label per row, in row order
ClassifierPredict(m, X) == [i \in DOMAIN X.rows |-> PredictRow(m, X.rows[i])]

\* predict_proba: one vector per row, over the classes seen in training
ClassifierProba(m, X) ==
    [i \in DOMAIN X.rows |->
        [c \in m.classes |-> IF c = PredictRow(m, X.rows[i]) THEN 1 ELSE 0]]

----------------------------------------------------------------------------
(* sklearn.metrics                                                         *)

\* accuracy as <<correct, total>>
AccuracyScore(y, p) == <<Cardinality({i \in DOMAIN y : y[i] = p[i]}), Len(y)>>

\* classification_report(output_dict=True): per-class entries keyed by str(label)
ClassificationReport(y, p) ==
    [classes |-> {ToString(l) : l \in Range(y) \cup Range(p)},
     accuracy |-> AccuracyScore(y, p)]

ConfusionMatrix(y, p) ==
    LET L == Range(y) \cup Range(p)
    IN  [c \in L \X L |-> Cardinality({i \in DOMAIN y : y[i] = c[1] /\ p[i] = c[2]})]

----------------------------------------------------------------------------
(* SentimentAnalyzer                                                       *)

\* __init__ without model_path
NewAnalyzer(now) ==
    [vectorizer |-> UnfitVectorizer,
     vectorizer_fitted |-> FALSE,
     model |-> UnfitClassifier(DefaultParams),
     metadata |-> [version |-> "1.0.0",
                   created_at |-> now,
                   last_updated |-> now,
                   performance_metrics |-> EmptyDict,
                   training_data_info |-> EmptyDict]]

Raised(a) == [ok |-> FALSE, an |-> a, ret |-> EmptyDict]

\* mutant of TrainMetadata: last_updated taken from created_at instead of now
TrainMetadataStale(md, now, trainMetrics, testMetrics, nTrain, nTest, ncols) ==
    DictUpdate(md,
        [last_updated |-> md.created_at,
         performance_metrics |-> [train |-> trainMetrics, test |-> testMetrics],
         training_data_info |-> [train_size |-> nTrain, test_size |-> nTest,
                                 feature_count |-> ncols]])

\* mutant of TrainMetadata: test_size records the size of the train partition
TrainMetadataWrongSizes(md, now, trainMetrics, testMetrics, nTrain, nTest, ncols) ==
    DictUpdate(md,
        [last_updated |-> now,
         performance_metrics |-> [train |-> trainMetrics, test |-> testMetrics],
         training_data_info |-> [train_size |-> nTrain, test_size |-> nTrain,
                                 feature_count |-> ncols]])

\* the metadata update at the end of train
TrainMetadata(md, now, trainMetrics, testMetrics, nTrain, nTest, ncols) ==
    DictUpdate(md,
        [last_updated |-> now,
         performance_metrics |-> [train |-> trainMetrics, test |-> testMetrics],
         training_data_info |-> [train_size |-> nTrain, test_size |-> nTest,
                                 feature_count |-> ncols]])

\* train(texts, labels, test_size=0.2, random_state=seed)
TrainCall(a, texts, labels, seed, now) ==
    LET n    == Len(texts)
        Xtr  == Select(texts, TrainIdx(seed, n))
        Xte  == Select(texts, TestIdx(seed, n))
        ytr  == Select(labels, TrainIdx(seed, n))
        yte  == Select(labels, TestIdx(seed, n))
        p1   == PreprocessData(a, Xtr)
        p2   == PreprocessData(p1.an, Xte)
        m    == FitClassifier(a.model.params, p1.X, ytr)
        trainPred == ClassifierPredict(m, p1.X)
        testPred  == ClassifierPredict(m, p2.X)
        md   == TrainMetadata(p2.an.metadata, now,
                              ClassificationReport(ytr, trainPred),
                              ClassificationReport(yte, testPred),
                              Len(Xtr), Len(Xte), p1.X.ncols)
    IN  IF ~SplitOk(n) THEN Raised(a)
        ELSE IF ~p1.ok THEN Raised(p1.an)
        ELSE IF ~p2.ok THEN Raised(p2.an)
        ELSE [ok |-> TRUE,
              an |-> [p2.an EXCEPT !.model = m, !.metadata = md],
              ret |-> md.performance_metrics]

\* predict(texts)
PredictCall(a, texts) ==
    LET p == PreprocessData(a, texts)
    IN  IF ~p.ok THEN Raised(p.an)
        ELSE IF ~PredictOk(p.an.model, p.X) THEN Raised(p.an)
        ELSE [ok |-> TRUE,
              an |-> p.an,
              ret |-> [labels |-> ClassifierPredict(p.an.model, p.X),
                       probabilities |-> ClassifierProba(p.an.model, p.X)]]

\* mutant of EvaluateCall: the metrics are stored under performance_metrics
EvaluateCallWrongKey(a, texts, labels) ==
    LET r    == PredictCall(a, texts)
        pred == r.ret.labels
        em   == [classification_report |-> ClassificationReport(labels, pred),
                 confusion_matrix |-> ConfusionMatrix(labels, pred),
                 accuracy |-> AccuracyScore(labels, pred)]
    IN  IF ~r.ok THEN Raised(r.an)
        ELSE [ok |-> TRUE,
              an |-> [r.an EXCEPT !.metadata =
                          DictSet(r.an.metadata, "performance_metrics", em)],
              ret |-> em]

\* evaluate(texts, labels)
EvaluateCall(a, texts, labels) ==
    LET r    == PredictCall(a, texts)
        pred == r.ret.labels
        em   == [classification_report |-> ClassificationReport(labels, pred),
                 confusion_matrix |-> ConfusionMatrix(labels, pred),
                 accuracy |-> AccuracyScore(labels, pred)]
    IN  IF ~r.ok THEN Raised(r.an)
        ELSE [ok |-> TRUE,
              an |-> [r.an EXCEPT !.metadata =
                          DictSet(r.an.metadata, "evaluation_metrics", em)],
              ret |-> em]

\* The parameter grids a caller passes: None (the default grid), a grid over
\* n_estimators alone, and a malformed grid. The classifier's answers do not
\* depend on its hyperparameters, so all candidates tie and the search keeps
\* the first candidate of the grid.
ParamGrids == {"default", "custom", "malformed"}

BestParams(grid) ==
    IF grid = "default"
    THEN [n_estimators |-> GridEstimators, max_depth |-> GridMaxDepth,
          min_samples_split |-> GridMinSplit]
    ELSE [n_estimators |-> GridEstimators]

\* the stratified k-fold split raises unless some class has cv members
CvOk(labels) == \E l \in Range(labels) : CountIn(DOMAIN labels, labels, l) >= CvFolds

GridSearchOk(grid, labels) == grid # "malformed" /\ CvOk(labels)

\* best_score_ exists only when the search ran: any score then, none otherwise
TuneScores(grid, labels) == IF GridSearchOk(grid, labels) THEN 0..MaxScore ELSE {0}

\* mutant of TuneCall: the vectorizer is fit again on the whole corpus
TuneCallRefits(a, texts, labels, grid, score) ==
    LET p    == PreprocessData([a EXCEPT !.vectorizer_fitted = FALSE], texts)
        best == BestParams(grid)
        m    == FitClassifier(DictUpdate(a.model.params, best), p.X, labels)
        res  == [best_parameters |-> best, best_score |-> score]
    IN  IF ~p.ok THEN Raised(p.an)
        ELSE IF ~GridSearchOk(grid, labels) THEN Raised(p.an)
        ELSE [ok |-> TRUE,
              an |-> [p.an EXCEPT !.model = m,
                                  !.metadata = DictUpdate(p.an.metadata, res)],
              ret |-> res]

\* mutant of TuneCall: the best estimator is not installed
TuneCallKeepsModel(a, texts, labels, grid, score) ==
    LET p    == PreprocessData(a, texts)
        best == BestParams(grid)
        res  == [best_parameters |-> best, best_score |-> score]
    IN  IF ~p.ok THEN Raised(p.an)
        ELSE IF ~GridSearchOk(grid, labels) THEN Raised(p.an)
        ELSE [ok |-> TRUE,
              an |-> [p.an EXCEPT !.metadata = DictUpdate(p.an.metadata, res)],
              ret |-> res]

\* tune_hyperparameters(texts, labels, param_grid); score is best_score_
TuneCall(a, texts, labels, grid, score) ==
    LET p    == PreprocessData(a, texts)
        best == BestParams(grid)
        m    == FitClassifier(DictUpdate(a.model.params, best), p.X, labels)
        res  == [best_parameters |-> best, best_score |-> score]
    IN  IF ~p.ok THEN Raised(p.an)
        ELSE IF ~GridSearchOk(grid, labels) THEN Raised(p.an)
        ELSE [ok |-> TRUE,
              an |-> [p.an EXCEPT !.model = m,
                                  !.metadata = DictUpdate(p.an.metadata, res)],
              ret |-> res]

----------------------------------------------------------------------------
(* The artifact directory                                                  *)

Files == {"model", "vectorizer", "metadata"}

NoFile == [present |-> FALSE, content |-> EmptyDict]

EmptyDir == [f \in Files |-> NoFile]

\* joblib.dump / joblib.load and json.dump / json.load
JoblibDump(obj) == [present |-> TRUE, content |-> obj]

JoblibLoad(file) == file.content

JsonDump(md) == [present |-> TRUE, content |-> [k \in DOMAIN md |-> md[k]]]

JsonLoad(file) == [k \in DOMAIN file.content |-> file.content[k]]

\* what a write that fails leaves: the old file, or a truncated one
FailedWrite(old, keepOld) == IF keepOld THEN old ELSE NoFile

\* mutant of SaveCall: vectorizer.joblib is never written
SaveCallSkipsVectorizer(a, d, failAt, keepOld) ==
    LET d1 == [d EXCEPT !["model"] =
                  IF failAt = 1 THEN FailedWrite(@, keepOld) ELSE JoblibDump(a.model)]
        d3 == [d1 EXCEPT !["metadata"] =
                  IF failAt = 3 THEN FailedWrite(@, keepOld)
                  ELSE JsonDump(a.metadata)]
    IN  IF failAt = 1 THEN [ok |-> FALSE, dir |-> d1]
        ELSE IF failAt = 2 THEN [ok |-> FALSE, dir |-> d1]
        ELSE IF failAt = 3 THEN [ok |-> FALSE, dir |-> d3]
        ELSE [ok |-> TRUE, dir |-> d3]

\* mutant of SaveCall: a write that raises is caught and save_model returns
SaveCallSwallows(a, d, failAt, keepOld) ==
    LET d1 == [d EXCEPT !["model"] =
                  IF failAt = 1 THEN FailedWrite(@, keepOld) ELSE JoblibDump(a.model)]
        d2 == [d1 EXCEPT !["vectorizer"] =
                  IF failAt = 2 THEN FailedWrite(@, keepOld)
                  ELSE JoblibDump(a.vectorizer)]
        d3 == [d2 EXCEPT !["metadata"] =
                  IF failAt = 3 THEN FailedWrite(@, keepOld)
                  ELSE JsonDump(a.metadata)]
    IN  [ok |-> TRUE, dir |-> d3]

\* save_model(directory); failAt = 0: every write succeeds, failAt = k: the k-th
\* write raises
SaveCall(a, d, failAt, keepOld) ==
    LET d1 == [d EXCEPT !["model"] =
                  IF failAt = 1 THEN FailedWrite(@, keepOld) ELSE JoblibDump(a.model)]
        d2 == [d1 EXCEPT !["vectorizer"] =
                  IF failAt = 2 THEN FailedWrite(@, keepOld)
                  ELSE JoblibDump(a.vectorizer)]
        d3 == [d2 EXCEPT !["metadata"] =
                  IF failAt = 3 THEN FailedWrite(@, keepOld)
                  ELSE JsonDump(a.metadata)]
    IN  IF failAt = 1 THEN [ok |-> FALSE, dir |-> d1]
        ELSE IF failAt = 2 THEN [ok |-> FALSE, dir |-> d2]
        ELSE IF failAt = 3 THEN [ok |-> FALSE, dir |-> d3]
        ELSE [ok |-> TRUE, dir |-> d3]

\* mutant of LoadCall: the stored vectorizer is never installed
LoadCallKeepsVectorizer(a, d) ==
    LET a1 == [a EXCEPT !.model = JoblibLoad(d["model"])]
        a2 == [a1 EXCEPT !.vectorizer_fitted = TRUE]
        a3 == [a2 EXCEPT !.metadata = JsonLoad(d["metadata"])]
    IN  IF ~d["model"].present THEN Raised(a)
        ELSE IF ~d["vectorizer"].present THEN Raised(a1)
        ELSE IF ~d["metadata"].present THEN Raised(a2)
        ELSE [ok |-> TRUE, an |-> a3, ret |-> EmptyDict]

\* mutant of LoadCall: the except block logs the error and does not re-raise
LoadCallSwallows(a, d) ==
    LET a1 == [a EXCEPT !.model = JoblibLoad(d["model"])]
        a2 == [a1 EXCEPT !.vectorizer = JoblibLoad(d["vectorizer"]),
                         !.vectorizer_fitted = TRUE]
        a3 == [a2 EXCEPT !.metadata = JsonLoad(d["metadata"])]
    IN  IF ~d["model"].present THEN [ok |-> TRUE, an |-> a, ret |-> EmptyDict]
        ELSE IF ~d["vectorizer"].present THEN [ok |-> TRUE, an |-> a1, ret |-> EmptyDict]
        ELSE IF ~d["metadata"].present THEN [ok |-> TRUE, an |-> a2, ret |-> EmptyDict]
        ELSE [ok |-> TRUE, an |-> a3, ret |-> EmptyDict]

\* load_model(directory): each component is assigned as soon as it is read
LoadCall(a, d) ==
    LET a1 == [a EXCEPT !.model = JoblibLoad(d["model"])]
        a2 == [a1 EXCEPT !.vectorizer = JoblibLoad(d["vectorizer"]),
                         !.vectorizer_fitted = TRUE]
        a3 == [a2 EXCEPT !.metadata = JsonLoad(d["metadata"])]
    IN  IF ~d["model"].present THEN Raised(a)
        ELSE IF ~d["vectorizer"].present THEN Raised(a1)
        ELSE IF ~d["metadata"].present THEN Raised(a2)
        ELSE [ok |-> TRUE, an |-> a3, ret |-> EmptyDict]

\* SentimentAnalyzer(model_path): a new instance, then load_model; when
\* load_model raises the constructor raises and the caller gets no instance
ConstructLoadCall(d, now) == LoadCall(NewAnalyzer(now), d)

NoSnapshot == [valid |-> FALSE, an |-> EmptyDict]

\* no FinancialTextProcessor has been constructed, no call made on one
NoProcessor == [constructed |-> FALSE, stopwords |-> {}, financial_terms |-> <<>>]

NoCall == [op |-> "none", ok |-> TRUE, args |-> <<>>, ret |-> <<>>]

----------------------------------------------------------------------------------------------------------------------------------------------------
(* The state machine: one caller making calls on its instance and on the   *)
(* artifact directory, one call at a time.                                 *)

Init ==
    /\ an = NewAnalyzer(0)
    /\ dir = EmptyDir
    /\ clock = 0
    /\ last = [op |-> "construct", ok |-> TRUE, ret |-> EmptyDict]
    /\ saved = NoSnapshot
    /\ procs = EmptyDict
    /\ tproc = NoProcessor
    /\ tcall = NoCall

\* one more call, while the bound allows it; it is made later than the calls before
Call ==
    /\ clock < MaxCalls
    /\ clock' = clock + 1

\* what datetime.now() returns during the call being made
Now == clock + 1

Construct ==
    /\ Call
    /\ an' = NewAnalyzer(Now)
    /\ last' = [op |-> "construct", ok |-> TRUE, ret |-> EmptyDict]
    /\ UNCHANGED <<dir, saved, procs, tproc, tcall>>

ConstructLoad ==
    /\ Call
    /\ LET r == ConstructLoadCall(dir, Now)
       IN  /\ an' = IF r.ok THEN r.an ELSE an
           /\ last' = [op |-> "construct_load", ok |-> r.ok, ret |-> EmptyDict]
    /\ UNCHANGED <<dir, saved, procs, tproc, tcall>>

Train ==
    /\ Call
    /\ \E n \in Lengths, a \in TextPool, b \in TextPool, x \in Labels,
          seed \in Seeds :
           LET r == TrainCall(an, Corpus(n, a, b), LabelSeq(n, x), seed, Now)
           IN  /\ an' = r.an
               /\ last' = [op |-> "train", ok |-> r.ok, ret |-> r.ret]
    /\ UNCHANGED <<dir, saved, procs, tproc, tcall>>

TuneHyperparameters ==
    /\ Call
    /\ \E n \in Lengths, a \in TextPool, b \in TextPool, x \in Labels,
          grid \in ParamGrids :
         \E score \in TuneScores(grid, LabelSeq(n, x)) :
           LET r == TuneCall(an, Corpus(n, a, b), LabelSeq(n, x), grid, score)
           IN  /\ an' = r.an
               /\ last' = [op |-> "tune_hyperparameters", ok |-> r.ok, ret |-> r.ret]
    /\ UNCHANGED <<dir, saved, procs, tproc, tcall>>

Predict ==
    /\ Call
    /\ \E n \in Lengths, a \in TextPool, b \in TextPool :
           LET r == PredictCall(an, Corpus(n, a, b))
           IN  /\ an' = r.an
               /\ last' = [op |-> "predict", ok |-> r.ok, ret |-> r.ret]
    /\ UNCHANGED <<dir, saved, procs, tproc, tcall>>

Evaluate ==
    /\ Call
    /\ \E n \in Lengths, a \in TextPool, b \in TextPool, x \in Labels :
           LET r == EvaluateCall(an, Corpus(n, a, b), LabelSeq(n, x))
           IN  /\ an' = r.an
               /\ last' = [op |-> "evaluate", ok |-> r.ok, ret |-> r.ret]
    /\ UNCHANGED <<dir, saved, procs, tproc, tcall>>

SaveModel ==
    /\ Call
    /\ \E failAt \in 0..3, keepOld \in BOOLEAN :
           LET r == SaveCall(an, dir, failAt, keepOld)
           IN  /\ failAt = 0 => keepOld
               /\ dir' = r.dir
               /\ last' = [op |-> "save_model", ok |-> r.ok, ret |-> EmptyDict]
               /\ saved' = IF r.ok THEN [valid |-> TRUE, an |-> an]
                           ELSE IF r.dir = dir THEN saved ELSE NoSnapshot
    /\ UNCHANGED <<an, procs, tproc, tcall>>

LoadModel ==
    /\ Call
    /\ LET r == LoadCall(an, dir)
       IN  /\ an' = r.an
           /\ last' = [op |-> "load_model", ok |-> r.ok, ret |-> EmptyDict]
    /\ UNCHANGED <<dir, saved, procs, tproc, tcall>>

\* the file system loses or corrupts one file of the directory
RemoveFile ==
    /\ Call
    /\ \E f \in Files :
           /\ dir[f].present
           /\ dir' = [dir EXCEPT ![f] = NoFile]
    /\ last' = [op |-> "remove_file", ok |-> TRUE, ret |-> EmptyDict]
    /\ saved' = NoSnapshot
    /\ UNCHANGED <<an, procs, tproc, tcall>>

Next ==
    \/ Construct
    \/ ConstructLoad
    \/ Train
    \/ TuneHyperparameters
    \/ Predict
    \/ Evaluate
    \/ SaveModel
    \/ LoadModel
    \/ RemoveFile

Spec == Init /\ [][Next]_vars

----------------------------------------------------------------------------
(* Concurrent callers on one artifact directory. Each caller owns its      *)
(* instance; save_model and load_model touch the three files one after the *)
(* other, without a lock, so the file operations of different callers      *)
(* interleave. A step is one os.makedirs, one file write or one file read. *)

NumProcs == 2       \* callers sharing the directory
MaxOps == 3         \* save_model / load_model calls the callers make in all

Procs == 1..NumProcs

\* the order in which save_model writes and load_model reads the files
FileOrder == <<"model", "vectorizer", "metadata">>

Min(i, j) == IF i <= j THEN i ELSE j

\* metadata["version"] as caller p sets it: "1.0.0", "1.1.0", ...
VersionOf(p) == "1." \o ToString(p - 1) \o ".0"

\* the instance caller p holds at the start: constructed, trained on its own
\* corpus, and given its own version
Artifact(p) ==
    LET t == 1..Min(p, MaxTerm)
        a == TrainCall(NewAnalyzer(0), Corpus(2, t, t), LabelSeq(2, MaxLabel), 0, p).an
    IN  [a EXCEPT !.metadata = DictSet(a.metadata, "version", VersionOf(p))]

\* mutant of WriteStep: a file that exists is left as it is
WriteStepKeepsExisting(a, d, k) ==
    IF d[FileOrder[k]].present THEN d
    ELSE [d EXCEPT ![FileOrder[k]] =
             IF k = 3 THEN JsonDump(a.metadata) ELSE JoblibDump(a[FileOrder[k]])]

\* the k-th write of save_model
WriteStep(a, d, k) ==
    [d EXCEPT ![FileOrder[k]] =
        IF k = 3 THEN JsonDump(a.metadata) ELSE JoblibDump(a[FileOrder[k]])]

\* mutant of ReadStep: a read made while some caller is saving raises
ReadStepLocked(a, d, k) ==
    IF ~d[FileOrder[k]].present \/ \E q \in Procs : procs[q].op = "save"
    THEN [ok |-> FALSE, an |-> a]
    ELSE IF k = 1 THEN [ok |-> TRUE, an |-> [a EXCEPT !.model = JoblibLoad(d["model"])]]
    ELSE IF k = 2
    THEN [ok |-> TRUE,
          an |-> [a EXCEPT !.vectorizer = JoblibLoad(d["vectorizer"]),
                           !.vectorizer_fitted = TRUE]]
    ELSE [ok |-> TRUE, an |-> [a EXCEPT !.metadata = JsonLoad(d["metadata"])]]

\* the k-th read of load_model: the component is assigned as soon as it is read
ReadStep(a, d, k) ==
    IF ~d[FileOrder[k]].present
    THEN [ok |-> FALSE, an |-> a]
    ELSE IF k = 1 THEN [ok |-> TRUE, an |-> [a EXCEPT !.model = JoblibLoad(d["model"])]]
    ELSE IF k = 2
    THEN [ok |-> TRUE,
          an |-> [a EXCEPT !.vectorizer = JoblibLoad(d["vectorizer"]),
                           !.vectorizer_fitted = TRUE]]
    ELSE [ok |-> TRUE, an |-> [a EXCEPT !.metadata = JsonLoad(d["metadata"])]]

\* the directory as a save_model of instance a that ran alone leaves it
Triple(a) == WriteStep(a, WriteStep(a, WriteStep(a, EmptyDir, 1), 2), 3)

StoreInit ==
    /\ an = NewAnalyzer(0)
    /\ dir = EmptyDir
    /\ clock = 0
    /\ last = [op |-> "construct", ok |-> TRUE, ret |-> EmptyDict]
    /\ saved = NoSnapshot
    /\ procs = [p \in Procs |->
                  [an |-> Artifact(p), op |-> "idle", pc |-> 0, ok |-> TRUE,
                   done |-> "none", alone |-> TRUE, n |-> 0]]
    /\ tproc = NoProcessor
    /\ tcall = NoCall

\* no other caller is inside save_model
NoOtherSave(p) == \A q \in Procs \ {p} : procs[q].op # "save"

\* caller p enters save_model: os.makedirs(directory, exist_ok=True)
BeginSave(p) ==
    /\ procs[p].op = "idle"
    /\ clock < MaxOps
    /\ clock' = clock + 1
    /\ procs' = [q \in Procs |->
                   IF q = p
                   THEN [procs[q] EXCEPT !.op = "save", !.pc = 0, !.n = @ + 1,
                                         !.alone = NoOtherSave(p)]
                   ELSE IF procs[q].op = "idle" THEN procs[q]
                   ELSE [procs[q] EXCEPT !.alone = FALSE]]
    /\ UNCHANGED <<an, dir, last, saved, tproc, tcall>>

\* the next write of caller p's save_model succeeds; after the third one
\* save_model returns
WriteFile(p) ==
    /\ procs[p].op = "save"
    /\ LET k == procs[p].pc + 1
       IN  /\ dir' = WriteStep(procs[p].an, dir, k)
           /\ procs' = [procs EXCEPT ![p] =
                           IF k = 3
                           THEN [@ EXCEPT !.op = "idle", !.pc = 0, !.ok = TRUE,
                                          !.done = "save"]
                           ELSE [@ EXCEPT !.pc = k]]
           /\ saved' = IF k = 3 THEN [valid |-> procs[p].alone, an |-> procs[p].an]
                       ELSE NoSnapshot
    /\ UNCHANGED <<an, clock, last, tproc, tcall>>

\* the next write of caller p's save_model raises: save_model raises
WriteFails(p) ==
    /\ procs[p].op = "save"
    /\ \E keepOld \in BOOLEAN :
          dir' = [dir EXCEPT ![FileOrder[procs[p].pc + 1]] = FailedWrite(@, keepOld)]
    /\ procs' = [procs EXCEPT ![p] =
                    [@ EXCEPT !.op = "idle", !.pc = 0, !.ok = FALSE, !.done = "save"]]
    /\ saved' = IF dir' = dir /\ procs[p].pc = 0 THEN saved ELSE NoSnapshot
    /\ UNCHANGED <<an, clock, last, tproc, tcall>>

\* caller p enters load_model
BeginLoad(p) ==
    /\ procs[p].op = "idle"
    /\ clock < MaxOps
    /\ clock' = clock + 1
    /\ procs' = [procs EXCEPT ![p] =
                    [@ EXCEPT !.op = "load", !.pc = 0, !.n = @ + 1,
                              !.alone = NoOtherSave(p)]]
    /\ UNCHANGED <<an, dir, last, saved, tproc, tcall>>

\* the next read of caller p's load_model; a missing file makes load_model
\* raise, and after the third read load_model returns
ReadFile(p) ==
    /\ procs[p].op = "load"
    /\ LET k == procs[p].pc + 1
           r == ReadStep(procs[p].an, dir, k)
       IN  procs' = [procs EXCEPT ![p] =
                       IF ~r.ok
                       THEN [@ EXCEPT !.op = "idle", !.pc = 0, !.ok = FALSE,
                                      !.done = "load"]
                       ELSE IF k = 3
                       THEN [@ EXCEPT !.an = r.an, !.op = "idle", !.pc = 0,
                                      !.ok = TRUE, !.done = "load"]
                       ELSE [@ EXCEPT !.an = r.an, !.pc = k]]
    /\ UNCHANGED <<an, dir, clock, last, saved, tproc, tcall>>

StoreNext ==
    \E p \in Procs :
        \/ BeginSave(p)
        \/ WriteFile(p)
        \/ WriteFails(p)
        \/ BeginLoad(p)
        \/ ReadFile(p)

StoreSpec == StoreInit /\ [][StoreNext]_vars

-----------------------------------------------------------------------------
(* FinancialTextProcessor (text_processor.py). A text is the sequence of   *)
(* its whitespace-separated chunks; Persian words are written in Latin     *)
(* transliteration, "-" inside a word standing for the zero-width          *)
(* non-joiner. The calls are made by one caller on one instance; TextSpec   *)
(* leaves the analyzer and the model directory alone.                       *)

MaxWords == 2       \* chunks in a text given to the text processor
MaxBatch == 2       \* texts given to one batch_process call

\* a value that is not a str, passed where the signature says str
NoneValue == <<"<None>">>

IsStr(text) == text # NoneValue

\* the chunks input texts are made of: three plain words (a profit term, a
\* stock term, a default stopword), a plural followed by "!", a URL, a
\* Persian digit, and a word written with the Arabic kaf
RawChunks == {"sud", "saham", "va", "sahamha!", "http://t.co", "2_fa", "sherkat_ar"}

SeqsUpTo(S, n) == UNION {[1..k -> S] : k \in 0..n}

Texts == SeqsUpTo(RawChunks, MaxWords)

TextArgs == Texts \cup {NoneValue}

RECURSIVE Flatten(_)
Flatten(ss) == IF ss = <<>> THEN <<>> ELSE Head(ss) \o Flatten(Tail(ss))

\* self.normalizer.normalize(text): Arabic letter forms become the Persian ones
NormalizerNormalize(text) ==
    [i \in DOMAIN text |-> IF text[i] = "sherkat_ar" THEN "sherkat" ELSE text[i]]

\* digits.convert_to_en(text): Persian digits become ASCII digits
ConvertToEn(text) ==
    [i \in DOMAIN text |-> IF text[i] = "2_fa" THEN "2" ELSE text[i]]

\* re.sub(r'http\S+|www.\S+', '', text): the run of non-blanks is deleted,
\* the blanks around it stay
RemoveUrls(text) ==
    [i \in DOMAIN text |-> IF text[i] = "http://t.co" THEN "" ELSE text[i]]

\* re.sub(r'[^\w\s$%+-]', ' ', text): each other character becomes a blank,
\* so that a chunk may fall into several, some of them empty
FilterChars(text) ==
    Flatten([i \in DOMAIN text |->
                CASE text[i] = "sahamha!"  -> <<"sahamha", "">>
                  [] text[i] = "pish-bini" -> <<"pish", "bini">>
                  [] OTHER                 -> <<text[i]>>])

\* ' '.join(text.split()): runs of blanks become one, those at the ends go
CollapseWhitespace(text) == SelectSeq(text, LAMBDA c : c # "")

\* the value normalize_text computes for a str
Normalized(text) ==
    CollapseWhitespace(FilterChars(RemoveUrls(ConvertToEn(NormalizerNormalize(text)))))

\* self.tokenizer.tokenize(text): words, punctuation marks split off
Tokenize(text) ==
    Flatten([i \in DOMAIN text |->
                CASE text[i] = ""         -> <<>>
                  [] text[i] = "sahamha!" -> <<"sahamha", "!">>
                  [] OTHER                -> <<text[i]>>])

\* self.stemmer.stem(token): the plural ending is removed
Stem(token) == IF token = "sahamha" THEN "saham" ELSE token

\* _load_financial_terms: the categories in the order the dict registers
\* them, each with its list of variants (a variant of several words is one
\* str, the words separated by blanks)
LoadFinancialTerms ==
    << [category |-> "price",
        variations |-> <<"qeymat", "nerkh", "arzesh", "baha">>],
       [category |-> "increase",
        variations |-> <<"afzayesh", "roshd", "soud", "bala raftan">>],
       [category |-> "decrease",
        variations |-> <<"kahesh", "nozul", "oft", "payin amadan">>],
       [category |-> "stock",
        variations |-> <<"saham", "sahm", "oraq bahadar">>],
       [category |-> "market",
        variations |-> <<"bazar", "bours", "talar">>],
       [category |-> "company",
        variations |-> <<"sherkat", "bongah", "karkhaneh">>],
       [category |-> "profit",
        variations |-> <<"sud", "manfaat", "daramad">>],
       [category |-> "loss",
        variations |-> <<"ziyan", "zarar", "kasr">>],
       [category |-> "dividend",
        variations |-> <<"sud saham", "sud taqsimi">>],
       [category |-> "volume",
        variations |-> <<"hajm", "meqdar", "tedad">>],
       [category |-> "trade",
        variations |-> <<"moameleh", "kharid va forush", "mobadeleh">>],
       [category |-> "index",
        variations |-> <<"shakhes", "namagar", "andikator">>],
       [category |-> "forecast",
        variations |-> <<"pish-bini", "takhmin", "baravord">>],
       [category |-> "analysis",
        variations |-> <<"tahlil", "barresi", "arzyabi">>],
       [category |-> "report",
        variations |-> <<"gozaresh", "kholaseh", "natijeh">>] >>

DefaultStopwords ==
    {"va", "dar", "be", "az", "keh", "in", "ast", "ra", "ba", "baraye",
     "an", "yek", "haye", "ya", "amma", "ta", "ham", "shavad", "kard", "shod",
     "bud", "darad", "hameh", "hamchenin", "mi", "konand", "mi-shavad", "mi-konad"}

FinancialStopwords ==
    {"tarikh", "zaman", "saat", "ruz", "mah", "sal", "daqiqeh",
     "saniyeh", "hafteh", "fasl", "dowreh", "moddat", "zamani"}

\* what the file at custom_stopwords_path holds when it is a JSON list
CustomStopwords == {"sud"}

\* custom_stopwords_path: not given; given, no such file; a file holding a
\* JSON list; a file that cannot be read or parsed
CustomFiles == {"none", "missing", "list", "invalid"}

\* the outcome of a call that raises
TextRaised == [ok |-> FALSE, ret |-> <<>>]

TextReturns(value) == [ok |-> TRUE, ret |-> value]

\* _load_stopwords as __init__ calls it, before self.logger is assigned: the
\* except block evaluates self.logger, which raises AttributeError
LoadStopwords(file) ==
    LET stopwords == DefaultStopwords \cup FinancialStopwords
    IN  IF file \in {"none", "missing"} THEN TextReturns(stopwords)
        ELSE IF file = "list" THEN TextReturns(stopwords \cup CustomStopwords)
        ELSE TextRaised

\* FinancialTextProcessor(custom_stopwords_path) when _load_stopwords returns
NewProcessor(file) ==
    [constructed |-> TRUE,
     stopwords |-> LoadStopwords(file).ret,
     financial_terms |-> LoadFinancialTerms]

NormalizeTextCall(text) ==
    IF IsStr(text) THEN TextReturns(Normalized(text)) ELSE TextRaised

\* mutant of CategoriesOf: the inner loop goes on after the first match
RECURSIVE CategoriesOfNoBreak(_, _, _)
CategoriesOfNoBreak(terms, token, k) ==
    IF k > Len(terms) THEN <<>>
    ELSE IF \E j \in DOMAIN terms[k].variations : terms[k].variations[j] = token
         THEN <<terms[k].category>> \o CategoriesOfNoBreak(terms, token, k + 1)
         ELSE CategoriesOfNoBreak(terms, token, k + 1)

\* the inner loop of extract_financial_terms from the k-th category on: what
\* one token appends to terms
RECURSIVE CategoriesOf(_, _, _)
CategoriesOf(terms, token, k) ==
    IF k > Len(terms) THEN <<>>
    ELSE IF \E j \in DOMAIN terms[k].variations : terms[k].variations[j] = token
         THEN <<terms[k].category>>
         ELSE CategoriesOf(terms, token, k + 1)

\* the value extract_financial_terms computes for a str
Extracted(terms, text) ==
    LET tokens == Tokenize(text)
    IN  Flatten([i \in DOMAIN tokens |-> CategoriesOf(terms, tokens[i], 1)])

ExtractFinancialTermsCall(self, text) ==
    IF IsStr(text) THEN TextReturns(Extracted(self.financial_terms, text)) ELSE TextRaised

\* Counter(tokens)
Counter(tokens) ==
    [w \in Range(tokens) |-> Cardinality({i \in DOMAIN tokens : tokens[i] = w})]

\* mutant of ProcessedText: the stems are those of all tokens, stopwords included
ProcessedTextStemsAll(self, text) ==
    LET normalized == Normalized(text)
        tokens == Tokenize(normalized)
        filtered_tokens == SelectSeq(tokens, LAMBDA t : t \notin self.stopwords)
    IN  [original_text |-> text,
         normalized_text |-> normalized,
         tokens |-> filtered_tokens,
         stems |-> [i \in DOMAIN tokens |-> Stem(tokens[i])],
         financial_terms |-> Extracted(self.financial_terms, normalized),
         term_frequencies |-> Counter(filtered_tokens)]

\* the dict process_text returns for a str
ProcessedText(self, text) ==
    LET normalized == Normalized(text)
        tokens == Tokenize(normalized)
        filtered_tokens == SelectSeq(tokens, LAMBDA t : t \notin self.stopwords)
    IN  [original_text |-> text,
         normalized_text |-> normalized,
         tokens |-> filtered_tokens,
         stems |-> [i \in DOMAIN filtered_tokens |-> Stem(filtered_tokens[i])],
         financial_terms |-> Extracted(self.financial_terms, normalized),
         term_frequencies |-> Counter(filtered_tokens)]

\* process_text: normalize_text is its first statement and nothing is caught
ProcessTextCall(self, text) ==
    IF NormalizeTextCall(text).ok THEN TextReturns(ProcessedText(self, text)) ELSE TextRaised

\* mutant of BatchProcessCall: the results come in the reverse order
BatchProcessCallReversed(self, texts) ==
    IF \A i \in DOMAIN texts : ProcessTextCall(self, texts[i]).ok
    THEN TextReturns([i \in DOMAIN texts |->
                         ProcessTextCall(self, texts[Len(texts) + 1 - i]).ret])
    ELSE TextRaised

\* batch_process: the list comprehension ends at the first item that raises
BatchProcessCall(self, texts) ==
    IF \A i \in DOMAIN texts : ProcessTextCall(self, texts[i]).ok
    THEN TextReturns([i \in DOMAIN texts |-> ProcessTextCall(self, texts[i]).ret])
    ELSE TextRaised

\* the items batches are made of
BatchItems == {<<"sud", "saham">>, <<"va", "sahamha!">>, <<"sud">>, NoneValue}

Batches == SeqsUpTo(BatchItems, MaxBatch)

TextFrame == UNCHANGED <<an, dir, clock, last, saved, procs>>

\* p = FinancialTextProcessor(path): when __init__ raises, the caller keeps
\* what it held
ConstructProcessor(file) ==
    /\ tproc' = IF LoadStopwords(file).ok THEN NewProcessor(file) ELSE tproc
    /\ tcall' = [op |-> "__init__", ok |-> LoadStopwords(file).ok,
                 args |-> file, ret |-> <<>>]
    /\ TextFrame

NormalizeText(text) ==
    /\ tproc.constructed
    /\ tcall' = [op |-> "normalize_text", ok |-> NormalizeTextCall(text).ok,
                 args |-> text, ret |-> NormalizeTextCall(text).ret]
    /\ UNCHANGED tproc
    /\ TextFrame

ExtractFinancialTerms(text) ==
    /\ tproc.constructed
    /\ tcall' = [op |-> "extract_financial_terms",
                 ok |-> ExtractFinancialTermsCall(tproc, text).ok,
                 args |-> text, ret |-> ExtractFinancialTermsCall(tproc, text).ret]
    /\ UNCHANGED tproc
    /\ TextFrame

ProcessText(text) ==
    /\ tproc.constructed
    /\ tcall' = [op |-> "process_text", ok |-> ProcessTextCall(tproc, text).ok,
                 args |-> text, ret |-> ProcessTextCall(tproc, text).ret]
    /\ UNCHANGED tproc
    /\ TextFrame

BatchProcess(texts) ==
    /\ tproc.constructed
    /\ tcall' = [op |-> "batch_process", ok |-> BatchProcessCall(tproc, texts).ok,
                 args |-> texts, ret |-> BatchProcessCall(tproc, texts).ret]
    /\ UNCHANGED tproc
    /\ TextFrame

TextNext ==
    \/ \E file \in CustomFiles : ConstructProcessor(file)
    \/ \E text \in TextArgs : NormalizeText(text)
    \/ \E text \in TextArgs : ExtractFinancialTerms(text)
    \/ \E text \in TextArgs : ProcessText(text)
    \/ \E texts \in Batches : BatchProcess(texts)

TextSpec == Init /\ [][TextNext]_vars

----------------------------------------------------------------------------
(* Properties. Every step of Spec is one call; last' names the call a step *)
(* makes, the unprimed variables are the state the call starts from.       *)

ReadCalls == {"train", "tune_hyperparameters", "predict", "evaluate"}

\* an instance as __init__ leaves it: never trained, tuned or loaded
Fresh(a) == \E t \in 0..MaxCalls : a = NewAnalyzer(t)

\* the corpora a call of the model can be given
Corpora == {Corpus(n, a, b) : n \in Lengths, a \in TextPool, b \in TextPool}

\* C1: the vectorizer goes from Unfit to Fit by learning a vocabulary only in
\* train: a step that takes the held vectorizer from Unfit to Fit is a train
\* call (or a load, which installs a stored vectorizer instead of learning).
C1_OnlyTrainFits ==
    [][(~an.vectorizer.fit /\ an'.vectorizer.fit)
          => last'.op \in {"train", "load_model", "construct_load"}]_vars

C3_VocabularyFrozen ==
    [][(an.vectorizer.fit /\ last'.op \in ReadCalls)
          => /\ an'.vectorizer = an.vectorizer
             /\ an'.vectorizer_fitted
             /\ (last'.op = "train" /\ last'.ok)
                   => an'.metadata.training_data_info.feature_count
                         = Cardinality(an.vectorizer.vocab)
             /\ (last'.op \in {"train", "tune_hyperparameters"} /\ last'.ok)
                   => an'.model.n_features = Cardinality(an.vectorizer.vocab)]_vars

\* C3 witness: a train succeeded whose train partition held a text (the empty
\* one) that is not among the texts the vectorizer was fit on: the vocabulary
\* in use was learned by an earlier call
C3_Witness ==
    /\ last.op = "train" /\ last.ok
    /\ an.vectorizer.fitOn = {1..1}
    /\ {} \in DOMAIN an.model.table
    /\ an.metadata.training_data_info.feature_count = 1

\* C4: in every train call the vocabulary in use was learned from that call's
\* train partition only: whatever the inputs of a successful train, the texts
\* the held vectorizer was fit on are texts of its train partition.
C4_FitOnTrainPartitionOnly ==
    [][(last'.op = "train" /\ last'.ok)
          => \A n \in Lengths, a \in TextPool, b \in TextPool, x \in Labels,
                seed \in Seeds :
                 LET r == TrainCall(an, Corpus(n, a, b), LabelSeq(n, x), seed, Now)
                 IN  (r.ok /\ r.an = an')
                        => an'.vectorizer.fitOn
                              \subseteq Range(Select(Corpus(n, a, b), TrainIdx(seed, n)))]_vars

\* C5 as claimed: no call on an instance replaces metadata.last_updated by an
\* earlier timestamp (construction makes a new instance).
C5_LastUpdatedMonotone ==
    [][last'.op \notin {"construct", "construct_load"}
          => an'.metadata.last_updated >= an.metadata.last_updated]_vars

\* C5 amended: last_updated never decreases across train, tune_hyperparameters,
\* predict, evaluate and save_model; a load_model that succeeds replaces it by
\* the last_updated stored in the directory's metadata document.
C5_LastUpdatedMonotoneExceptLoad ==
    [][last'.op \notin {"construct", "construct_load"}
          => \/ an'.metadata.last_updated >= an.metadata.last_updated
                   /\ (last'.op = "train" /\ last'.ok
                          => an'.metadata.last_updated = Now)
             \/ /\ last'.op = "load_model" /\ last'.ok
                /\ an'.metadata.last_updated = dir["metadata"].content.last_updated]_vars

\* C5 witness: a train made after construction moved last_updated forward
C5_Witness ==
    /\ last.op = "train" /\ last.ok
    /\ an.metadata.last_updated > an.metadata.created_at

\* C6: after train and a save_model that completed, SentimentAnalyzer(dir)
\* yields an instance with the saver's classifier, vectorizer and metadata
\* (version included), and predict answers every corpus as the saver does.
C6_RoundTrip ==
    (/\ last.op = "construct_load" /\ last.ok
     /\ saved.valid /\ saved.an.model.fit /\ saved.an.vectorizer_fitted)
        => /\ an.model = saved.an.model
           /\ an.vectorizer = saved.an.vectorizer
           /\ an.metadata = saved.an.metadata
           /\ an.metadata.version = saved.an.metadata.version
           /\ \A texts \in Corpora :
                  /\ PredictCall(an, texts).ok = PredictCall(saved.an, texts).ok
                  /\ PredictCall(an, texts).ret = PredictCall(saved.an, texts).ret

\* C6 witness: a trained instance was saved and loaded into a new instance
\* that answers a corpus
C6_Witness ==
    /\ last.op = "construct_load" /\ last.ok
    /\ saved.valid /\ saved.an.model.fit /\ saved.an.vectorizer_fitted
    /\ \E texts \in Corpora : PredictCall(an, texts).ok

\* C7: a load_model that raises leaves the instance as it was before the call
\* (it raised, so the components are not all from the artifact).
C7_FailedLoadChangesNothing ==
    [][(last'.op = "load_model" /\ ~last'.ok) => an' = an]_vars

\* C8: when a file of the directory is missing or unreadable, load_model and
\* SentimentAnalyzer(model_path) raise; the constructor hands out no instance.
C8_LoadFailureRaised ==
    [][(last'.op \in {"load_model", "construct_load"}
          /\ \E f \in Files : ~dir[f].present)
          => /\ ~last'.ok
             /\ last'.op = "construct_load" => an' = an]_vars

\* C8 witness: a constructor given a directory with the classifier file only raised
C8_Witness ==
    /\ last.op = "construct_load" /\ ~last.ok
    /\ dir["model"].present /\ ~dir["vectorizer"].present

\* C9: an evaluate that returns sets metadata.evaluation_metrics, with keys
\* classification_report, confusion_matrix and accuracy, returns that value,
\* and leaves performance_metrics, training_data_info, version and created_at
\* as they were.
C9_EvaluateFrame ==
    [][(last'.op = "evaluate" /\ last'.ok)
          => /\ "evaluation_metrics" \in DOMAIN an'.metadata
             /\ an'.metadata["evaluation_metrics"] = last'.ret
             /\ DOMAIN last'.ret
                   = {"classification_report", "confusion_matrix", "accuracy"}
             /\ \A k \in {"performance_metrics", "training_data_info",
                           "version", "created_at"} :
                    an'.metadata[k] = an.metadata[k]]_vars

\* C9 witness: an evaluate returned on an instance that holds training metrics
C9_Witness ==
    /\ last.op = "evaluate" /\ last.ok
    /\ DOMAIN an.metadata.performance_metrics = {"train", "test"}
    /\ an.metadata["evaluation_metrics"] = last.ret

\* C10 as claimed: on a trained artifact (classifier trained, vectorizer
\* fitted) tune_hyperparameters and evaluate leave the classifier state and
\* the vectorizer state as they were.
C10_TuneEvaluateMetadataOnly ==
    [][(an.model.fit /\ an.vectorizer.fit
          /\ last'.op \in {"tune_hyperparameters", "evaluate"})
          => (an'.model = an.model /\ an'.vectorizer = an.vectorizer)]_vars

\* C10 amended: with a fitted vectorizer, tune_hyperparameters and evaluate
\* leave the vectorizer state as it was; evaluate, and a tune_hyperparameters
\* that raises, leave the classifier as it was; a tune_hyperparameters that
\* returns replaces the classifier by one fitted with the best parameters.
C10_TuneReplacesClassifierOnly ==
    [][(an.vectorizer.fit /\ last'.op \in {"tune_hyperparameters", "evaluate"})
          => /\ an'.vectorizer = an.vectorizer
             /\ (last'.op = "evaluate" \/ ~last'.ok) => an'.model = an.model
             /\ (last'.op = "tune_hyperparameters" /\ last'.ok)
                   => /\ an'.model.fit
                      /\ an'.model.params
                            = DictUpdate(an.model.params, last'.ret.best_parameters)]_vars

\* C10 witness: a tune_hyperparameters returned on an instance trained before
C10_Witness ==
    /\ last.op = "tune_hyperparameters" /\ last.ok
    /\ DOMAIN an.metadata.training_data_info # {}
    /\ an.vectorizer.fit
    /\ an.model.params.n_estimators = GridEstimators

\* C11: train is reproducible: a train call returns the performance metrics
\* the same call (same texts, labels and seed) returns on an instance nothing
\* was done to, whichever calls were made on the held instance before.
C11_TrainReproducible ==
    \A n \in Lengths, a \in TextPool, b \in TextPool, x \in Labels, seed \in Seeds :
        LET held  == TrainCall(an, Corpus(n, a, b), LabelSeq(n, x), seed, Now)
            other == TrainCall(NewAnalyzer(clock), Corpus(n, a, b), LabelSeq(n, x),
                               seed, Now)
        IN  held.ok = other.ok /\ held.ret = other.ret

\* C12: for all texts and labels of equal length >= 2, in any reachable state
\* where a call can be made, a train that returns leaves a classifier whose classes are the labels of
\* the train partition, and a predict of the same texts made right after it
\* returns, gives only labels of these classes, and leaves the classifier as
\* it was; the labels the last predict returned are classes of the held
\* classifier.
C12_PredictedLabelsSeen ==
    /\ \A n \in Lengths \ {1}, a \in TextPool, b \in TextPool, x \in Labels,
          seed \in Seeds :
           LET t == TrainCall(an, Corpus(n, a, b), LabelSeq(n, x), seed, Now)
               q == PredictCall(t.an, Corpus(n, a, b))
           IN  (clock < MaxCalls /\ t.ok) =>
                 /\ t.an.model.classes
                       = Range(Select(LabelSeq(n, x), TrainIdx(seed, n)))
                 /\ q.ok
                 /\ Range(q.ret.labels) \subseteq t.an.model.classes
                 /\ q.an.model = t.an.model
    /\ (last.op = "predict" /\ last.ok)
          => Range(last.ret.labels) \subseteq an.model.classes

\* C12 witness: after a train whose train partition held one label only, a
\* predict over a corpus of two or more texts returned that label only
C12_Witness ==
    /\ last.op = "predict" /\ last.ok
    /\ Len(last.ret.labels) >= 2
    /\ an.model.classes = {MaxLabel}
    /\ Range(last.ret.labels) = {MaxLabel}
    /\ DOMAIN an.metadata.training_data_info # {}

\* C13: a predict that returns gives one label and one probability vector per
\* input text, and entry i is the answer for texts[i] alone: whatever corpus a
\* predict is given in a reachable state, its i-th label and vector are those
\* of a predict of the single text texts[i]; the value the last predict
\* returned is such a value.
C13_OneEntryPerText ==
    /\ \A texts \in Corpora :
          LET r == PredictCall(an, texts)
          IN  r.ok =>
                /\ Len(r.ret.labels) = Len(texts)
                /\ Len(r.ret.probabilities) = Len(texts)
                /\ \A i \in 1..Len(texts) :
                      LET one == PredictCall(an, <<texts[i]>>)
                      IN  /\ one.ok
                          /\ r.ret.labels[i] = one.ret.labels[1]
                          /\ r.ret.probabilities[i] = one.ret.probabilities[1]
                          /\ r.ret.probabilities[i][r.ret.labels[i]] = 1
    /\ (last.op = "predict" /\ last.ok)
          => /\ Len(last.ret.labels) = Len(last.ret.probabilities)
             /\ \E texts \in Corpora :
                    /\ Len(texts) = Len(last.ret.labels)
                    /\ PredictCall(an, texts).ret = last.ret

\* C13 witness: a predict over the longest corpus returned different labels at
\* different positions
C13_Witness ==
    /\ last.op = "predict" /\ last.ok
    /\ Len(last.ret.labels) = MaxLen
    /\ last.ret.labels[1] # last.ret.labels[2]

\* C14: a train that returns gives an object with the keys train and test,
\* each with an accuracy between 0 and 1; the object is the one stored as
\* metadata.performance_metrics; training_data_info has train_size + test_size
\* equal to the number of texts given and feature_count equal to the column
\* count of the train feature matrix. Stated for the train the caller made
\* last and for every train call that can be made in a reachable state where
\* a call can be made.
C14_TrainMetrics ==
    /\ (last.op = "train" /\ last.ok)
          => /\ DOMAIN last.ret = {"train", "test"}
             /\ \A k \in {"train", "test"} :
                    /\ 0 <= last.ret[k].accuracy[1]
                    /\ last.ret[k].accuracy[1] <= last.ret[k].accuracy[2]
                    /\ last.ret[k].accuracy[2] >= 1
             /\ last.ret = an.metadata.performance_metrics
             /\ an.metadata.training_data_info.train_size
                   + an.metadata.training_data_info.test_size \in Lengths
             /\ an.metadata.training_data_info.feature_count = an.model.n_features
    /\ \A n \in Lengths, a \in TextPool, b \in TextPool, x \in Labels, seed \in Seeds :
           LET t  == TrainCall(an, Corpus(n, a, b), LabelSeq(n, x), seed, Now)
               ti == t.an.metadata.training_data_info
           IN  (clock < MaxCalls /\ t.ok) =>
                 /\ DOMAIN t.ret = {"train", "test"}
                 /\ t.ret = t.an.metadata.performance_metrics
                 /\ t.ret.train.accuracy[2] = ti.train_size
                 /\ t.ret.test.accuracy[2] = ti.test_size
                 /\ ti.train_size + ti.test_size = n
                 /\ ti.feature_count
                       = PreprocessData(an, Select(Corpus(n, a, b),
                                                   TrainIdx(seed, n))).X.ncols

\* C14 witness: a train over the longest corpus returned with a test accuracy
\* below 1 and a train accuracy of 1
C14_Witness ==
    /\ last.op = "train" /\ last.ok
    /\ an.metadata.training_data_info.train_size
          + an.metadata.training_data_info.test_size = MaxLen
    /\ last.ret.test.accuracy[1] < last.ret.test.accuracy[2]
    /\ last.ret.train.accuracy[1] = last.ret.train.accuracy[2]

\* C15: a tune_hyperparameters that returns has replaced the held classifier
\* by one fitted with the best parameters of the grid, has stored
\* best_parameters and best_score in the metadata, and returns an object with
\* exactly these two keys, whose values are the stored ones.
C15_TuneResult ==
    (last.op = "tune_hyperparameters" /\ last.ok)
        => /\ DOMAIN last.ret = {"best_parameters", "best_score"}
           /\ {"best_parameters", "best_score"} \subseteq DOMAIN an.metadata
           /\ an.metadata["best_parameters"] = last.ret.best_parameters
           /\ an.metadata["best_score"] = last.ret.best_score
           /\ last.ret.best_parameters
                 \in {BestParams(g) : g \in ParamGrids \ {"malformed"}}
           /\ an.model.fit
           /\ \A k \in DOMAIN last.ret.best_parameters :
                  an.model.params[k] = last.ret.best_parameters[k]

\* C15 witness: a tune_hyperparameters over the default grid returned on an
\* instance that was never trained
C15_Witness ==
    /\ last.op = "tune_hyperparameters" /\ last.ok
    /\ last.ret.best_parameters = BestParams("default")
    /\ an.metadata.training_data_info = EmptyDict
    /\ an.model.params.max_depth = GridMaxDepth

\* C16: after a save_model that returns, the directory holds the three files
\* model.joblib, vectorizer.joblib and metadata.json, and they hold the
\* classifier, the vectorizer and the metadata of the instance that saved.
C16_SaveWritesThreeFiles ==
    (last.op = "save_model" /\ last.ok)
        => /\ \A f \in Files : dir[f].present
           /\ JoblibLoad(dir["model"]) = an.model
           /\ JoblibLoad(dir["vectorizer"]) = an.vectorizer
           /\ JsonLoad(dir["metadata"]) = an.metadata

\* C16 witness: a trained instance was saved into the directory that held no
\* file before
C16_Witness ==
    /\ clock = 2
    /\ last.op = "save_model" /\ last.ok
    /\ an.model.fit
    /\ \A f \in Files : dir[f].present

\* the step is one of caller p's own reads in load_model
LoadStepOf(p) ==
    /\ procs[p].op = "load"
    /\ (procs'[p].pc # procs[p].pc \/ procs'[p].op # procs[p].op)

\* C17: save_model calls that run one after the other replace the artifact
\* wholesale: a load_model that returns, with no save_model running during
\* it, after a save_model that completed with no other save_model running
\* during it, leaves the loader with the classifier, vectorizer and metadata
\* (version included) of that most recent save, whatever earlier saves wrote.
C17_LoadReturnsLatestSave ==
    [][\A p \in Procs :
          (/\ LoadStepOf(p)
           /\ procs'[p].op = "idle" /\ procs'[p].ok /\ procs'[p].alone
           /\ saved.valid)
              => /\ procs'[p].an.model = saved.an.model
                 /\ procs'[p].an.vectorizer = saved.an.vectorizer
                 /\ procs'[p].an.metadata = saved.an.metadata
                 /\ procs'[p].an.metadata.version = saved.an.metadata.version
                 /\ dir = Triple(saved.an)]_vars

\* C17 witness: caller 1 saved, then caller 2 saved over it, then caller 1
\* loaded and holds caller 2's artifact and version
C17_Witness ==
    /\ procs[1].n = 2 /\ procs[1].op = "idle" /\ procs[1].done = "load"
    /\ procs[1].ok /\ procs[1].alone
    /\ procs[2].n = 1 /\ procs[2].op = "idle" /\ procs[2].done = "save"
    /\ procs[2].ok /\ procs[2].alone
    /\ saved.valid /\ saved.an = Artifact(2)
    /\ procs[1].an.model = Artifact(2).model
    /\ procs[1].an.vectorizer = Artifact(2).vectorizer
    /\ procs[1].an.metadata.version = VersionOf(2)
    /\ Artifact(1).metadata.version # VersionOf(2)

\* C18: when the save_model calls of all callers have completed, whatever the
\* interleaving of their file writes, the directory holds the classifier,
\* vectorizer and metadata of one single caller.
C18_LastWriterWins ==
    (\A p \in Procs : procs[p].op = "idle" /\ procs[p].done = "save" /\ procs[p].ok)
        => \E p \in Procs : dir = Triple(procs[p].an)

\* C19: load_model is not kept from running while a save_model overwrites the
\* directory: each of its reads takes the file as it is at that moment and
\* raises only when the file is missing, so a load_model whose three reads
\* find a file returns, with components that can come from different saves.
C19_LoadNotPrevented ==
    [][\A p \in Procs :
          (LoadStepOf(p) /\ dir[FileOrder[procs[p].pc + 1]].present)
              => LET k == procs[p].pc + 1
                 IN  /\ IF k = 3 THEN procs'[p].op = "idle" /\ procs'[p].ok
                                 ELSE procs'[p].op = "load" /\ procs'[p].pc = k
                     /\ k = 1 => procs'[p].an.model = JoblibLoad(dir["model"])
                     /\ k = 2 => procs'[p].an.vectorizer = JoblibLoad(dir["vectorizer"])
                     /\ k = 3 => procs'[p].an.metadata = JsonLoad(dir["metadata"])]_vars

\* C19 witness: caller 1's load_model returned with the classifier of its own
\* earlier save and the vectorizer and metadata of caller 2's save that ran
\* during the load; the instance it holds cannot predict
C19_Witness ==
    /\ procs[1].op = "idle" /\ procs[1].done = "load" /\ procs[1].ok
    /\ ~procs[1].alone
    /\ procs[1].an.model = Artifact(1).model
    /\ procs[1].an.vectorizer = Artifact(2).vectorizer
    /\ procs[1].an.metadata = Artifact(2).metadata
    /\ Artifact(1).model # Artifact(2).model
    /\ Artifact(1).vectorizer # Artifact(2).vectorizer
    /\ \A texts \in Corpora : ~PredictCall(procs[1].an, texts).ok

\* C20: save_model raises when one of its three writes fails, whichever it is
\* and whatever the failed write leaves behind, and a save_model that returns
\* has written all three files: no call returns after writing only some.
C20_SaveFailureRaises ==
    /\ \A failAt \in 1..3, keepOld \in BOOLEAN :
          ~SaveCall(an, dir, failAt, keepOld).ok
    /\ SaveCall(an, dir, 0, TRUE).ok
    /\ SaveCall(an, dir, 0, TRUE).dir = Triple(an)
    /\ (last.op = "save_model" /\ dir # Triple(an)) => ~last.ok

\* C20 witness: a save_model raised after writing the classifier file only
C20_Witness ==
    /\ last.op = "save_model" /\ ~last.ok
    /\ dir["model"].present /\ JoblibLoad(dir["model"]) = an.model
    /\ ~dir["vectorizer"].present /\ ~dir["metadata"].present

\* C27: in every reachable state, an instance marked as fitted
\* (vectorizer_fitted set) holds a vectorizer with a learned vocabulary, so
\* transform cannot fail as not fitted.
C27_FittedFlagMeansFit ==
    an.vectorizer_fitted => an.vectorizer.fit

\* C28: a predict or evaluate call that raises leaves the instance as it was:
\* classifier, vectorizer, fitted flag and metadata.
C28_FailedPredictChangesNothing ==
    [][(last'.op \in {"predict", "evaluate"} /\ ~last'.ok) => an' = an]_vars

\* C29: in every reachable state where metadata.training_data_info is not
\* empty, its feature_count is the vocabulary size of the held vectorizer.
C29_FeatureCountIsVocabularySize ==
    (DOMAIN an.metadata.training_data_info # {})
        => an.metadata.training_data_info.feature_count
              = Cardinality(an.vectorizer.vocab)

\* C21: in the record process_text returns, stems is as long as tokens and
\* stems[i] is the stem of tokens[i] at every position i.
C21_StemsAlignWithTokens ==
    (tcall.op = "process_text" /\ tcall.ok)
        => /\ Len(tcall.ret.stems) = Len(tcall.ret.tokens)
           /\ \A i \in DOMAIN tcall.ret.tokens :
                  tcall.ret.stems[i] = Stem(tcall.ret.tokens[i])

\* C21 happens: process_text returned for a text it took a stopword out of,
\* with a token left whose stem is not the token itself
C21_Witness ==
    /\ tcall.op = "process_text" /\ tcall.ok
    /\ Len(tcall.ret.tokens) < Len(Tokenize(tcall.ret.normalized_text))
    /\ \E i \in DOMAIN tcall.ret.tokens : tcall.ret.stems[i] # tcall.ret.tokens[i]

\* self.financial_terms[category].append(v)
RegisterVariant(terms, category, v) ==
    [k \in DOMAIN terms |->
        IF terms[k].category = category
        THEN [terms[k] EXCEPT !.variations = Append(@, v)]
        ELSE terms[k]]

\* the positions of the categories that list the token among their variants
MatchingCategories(terms, token) ==
    {k \in DOMAIN terms :
        token \in Range(terms[k].variations)}

\* the taxonomies extract_financial_terms is examined on: the one the instance
\* holds, and that one with the profit word "sud" listed under dividend too
Taxonomies ==
    {tproc.financial_terms, RegisterVariant(tproc.financial_terms, "dividend", "sud")}

\* C22: in extract_financial_terms a token contributes to at most one
\* category, the first in registration order of those that list it, so that
\* the hits reported are never more than the tokens.
C22_FirstCategoryOnly ==
    (tcall.op = "extract_financial_terms" /\ tcall.ok)
        => /\ tcall.ret = Extracted(tproc.financial_terms, tcall.args)
           /\ \A terms \in Taxonomies :
                LET tokens == Tokenize(tcall.args)
                    hits(i) == CategoriesOf(terms, tokens[i], 1)
                IN  /\ Extracted(terms, tcall.args) = Flatten([i \in DOMAIN tokens |-> hits(i)])
                    /\ Len(Extracted(terms, tcall.args)) <= Len(tokens)
                    /\ \A i \in DOMAIN tokens :
                          IF MatchingCategories(terms, tokens[i]) = {}
                          THEN hits(i) = <<>>
                          ELSE \E k \in MatchingCategories(terms, tokens[i]) :
                                  /\ \A m \in MatchingCategories(terms, tokens[i]) : k <= m
                                  /\ hits(i) = <<terms[k].category>>

\* C22 happens: extract_financial_terms returned hits for a text with a token
\* that two categories of a taxonomy list, and on that taxonomy the token is
\* attributed to one category
C22_Witness ==
    /\ tcall.op = "extract_financial_terms" /\ tcall.ok
    /\ tcall.ret # <<>>
    /\ \E terms \in Taxonomies : \E i \in DOMAIN Tokenize(tcall.args) :
          /\ Cardinality(MatchingCategories(terms, Tokenize(tcall.args)[i])) > 1
          /\ Len(CategoriesOf(terms, Tokenize(tcall.args)[i], 1)) = 1

\* the str a run of tokens is in the text: the tokens separated by blanks
RECURSIVE Surface(_)
Surface(v) == IF Len(v) = 1 THEN v[1] ELSE v[1] \o " " \o Surface(Tail(v))

\* the text holds the registered variant: a run of its tokens spells it
Contains(text, variant) ==
    \E i \in DOMAIN Tokenize(text) : \E j \in i..Len(Tokenize(text)) :
        Surface(SubSeq(Tokenize(text), i, j)) = variant

\* C23: extract_financial_terms counts, for each category, the occurrences of
\* any of its registered variants, the multi-word ones included: a text that
\* contains a registered variant yields a hit for its category.
C23_VariantInTextIsCounted ==
    (tcall.op = "extract_financial_terms" /\ tcall.ok)
        => \A k \in DOMAIN tproc.financial_terms :
              (\E j \in DOMAIN tproc.financial_terms[k].variations :
                    Contains(tcall.args, tproc.financial_terms[k].variations[j]))
                 => tproc.financial_terms[k].category \in Range(tcall.ret)

\* C24: normalize_text never propagates a failure: when one of its steps
\* raises, the call still returns (the value from before the failing step).
C24_NormalizeNeverRaises ==
    tcall.op = "normalize_text" => tcall.ok

\* C25: a failure on one item never aborts a batch: batch_process returns a
\* result for every item it was given.
C25_BatchNeverAborts ==
    tcall.op = "batch_process"
        => tcall.ok /\ Len(tcall.ret) = Len(tcall.args)

\* C26: batch_process(texts) returns as many results as texts, the i-th being
\* process_text(texts[i]) with original_text = texts[i]; the result for an
\* item depends neither on the other items nor on earlier calls, and the call
\* leaves the instance as it was.
C26_BatchIsProcessTextPerItem ==
    [][(tcall'.op = "batch_process" /\ tcall'.ok)
          => /\ Len(tcall'.ret) = Len(tcall'.args)
             /\ \A i \in DOMAIN tcall'.args :
                   /\ tcall'.ret[i] = ProcessedText(tproc, tcall'.args[i])
                   /\ tcall'.ret[i].original_text = tcall'.args[i]
             /\ tproc' = tproc]_vars

\* C26 happens: batch_process returned for two different texts, with two
\* different results
C26_Witness ==
    /\ tcall.op = "batch_process" /\ tcall.ok
    /\ Len(tcall.args) = 2
    /\ tcall.args[1] # tcall.args[2]
    /\ tcall.ret[1] # tcall.ret[2]

\* C30: constructing FinancialTextProcessor with a custom stopword path always
\* succeeds: the stopwords are the default and domain lists, with the custom
\* list when the file parses and without it when the file cannot be read or
\* parsed.
C30_ConstructionAlwaysSucceeds ==
    tcall.op = "__init__"
        => /\ tcall.ok
           /\ tproc.constructed
           /\ tproc.stopwords =
                 IF tcall.args = "list"
                 THEN DefaultStopwords \cup FinancialStopwords \cup CustomStopwords
                 ELSE DefaultStopwords \cup FinancialStopwords

====
